---- MODULE Spec2Model ----
(***************************************************************************)
(* Model of flarelog (src/flarelog/main.go): a slog.Handler that renders a *)
(* record twice, a colourised line for the console and a plain line for    *)
(* ./logs.log, and extracts the record's attributes by delegating to a     *)
(* slog.JSONHandler that writes into a buffer shared by a handler family.  *)
(*                                                                         *)
(* A Go string is modelled as a sequence of tokens (TLA+ strings); the     *)
(* empty string is the empty sequence, len(s) > 0 is Len(s) > 0 and        *)
(* concatenation is \o.                                                    *)
(***************************************************************************)
EXTENDS Integers, Sequences, FiniteSets, TLC

(* ------------------------------- bounds -------------------------------- *)
\* callers (goroutines) that issue Handle concurrently
NumCallers == 2
\* Handle calls started in one behaviour
MaxCalls == 3
\* Handle calls started in one behaviour of the rendering specification
MaxRenderCalls == 2
\* handlers of the family: the root plus those derived by WithAttrs/WithGroup
MaxHandlers == 2
MaxLiveCalls == 2

(* ------------------------- constants of main.go ------------------------ *)
yellow == 33
cyan == 36
lightGray == 37
darkGray == 90
lightRed == 91
lightBlue == 94
lightMagenta == 95
white == 97
reset == <<"ESC[0m">>

\* log/slog's level thresholds, which Handle compares r.Level against
LevelDebug == -4
LevelInfo == 0
LevelWarn == 4
LevelError == 8

\* log/slog's keys of the three well-known fields
TimeKey == "time"
LevelKey == "level"
MessageKey == "msg"

(* ------------------------------ strings -------------------------------- *)
\* strconv.Itoa for the numbers the model formats
Itoa(n) == IF n < 0 THEN <<"-", ToString(-n)>> ELSE <<ToString(n)>>

colorize(colorCode, v) == <<"ESC[">> \o Itoa(colorCode) \o <<"m">> \o v \o reset

\* the escape tokens colorize adds
IsEscape(tok) == tok \in {"ESC[", "ESC[0m"}

Pad2(n) == IF n < 10 THEN <<"0", ToString(n)>> ELSE <<ToString(n)>>
Pad3(n) == IF n < 10 THEN <<"0", "0", ToString(n)>>
           ELSE IF n < 100 THEN <<"0", ToString(n)>> ELSE <<ToString(n)>>

\* r.Time.Format(timeFormat), timeFormat = "[15:04:05.000]"; a time is the
\* number of milliseconds since midnight
FormatTime(t) ==
    <<"[">> \o Pad2(t \div 3600000) \o <<":">> \o Pad2((t \div 60000) % 60)
        \o <<":">> \o Pad2((t \div 1000) % 60) \o <<".">> \o Pad3(t % 1000) \o <<"]">>

\* slog.Level.String(): the band's name and the signed offset from it
LevelOffset(name, d) ==
    IF d = 0 THEN <<name>>
    ELSE IF d > 0 THEN <<name, "+", ToString(d)>> ELSE <<name, "-", ToString(-d)>>

LevelString(l) ==
    IF l < LevelInfo THEN LevelOffset("DEBUG", l - LevelDebug)
    ELSE IF l < LevelWarn THEN LevelOffset("INFO", l - LevelInfo)
    ELSE IF l < LevelError THEN LevelOffset("WARN", l - LevelWarn)
    ELSE LevelOffset("ERROR", l - LevelError)

(* ------------------------ slog.Value and slog.Attr --------------------- *)
\* A slog.Value: kind "Any" with nothing in it is the zero Value.
NilValue == [kind |-> "Any", s |-> "", n |-> 0]
StringValue(s) == [kind |-> "String", s |-> s, n |-> 0]
IntValue(n) == [kind |-> "Int", s |-> "", n |-> n]
\* slog.AnyValue(r.Level)
LevelValue(l) == [kind |-> "Level", s |-> "", n |-> l]
\* a json.Number: its text is written to JSON unchanged
NumberValue(s) == [kind |-> "Number", s |-> s, n |-> 0]

\* slog.Attr{}
EmptyAttr == [key |-> "", val |-> NilValue]
Attr(k, v) == [key |-> k, val |-> v]

\* Value.String()
ValueString(v) ==
    CASE v.kind = "String" -> (IF v.s = "" THEN <<>> ELSE <<v.s>>)
      [] v.kind = "Int" -> Itoa(v.n)
      [] v.kind = "Level" -> LevelString(v.n)
      [] v.kind = "Number" -> <<v.s>>
      [] OTHER -> <<"<nil>">>

\* Attr.Equal(slog.Attr{}), and the delegate's Attr.isEmpty
IsEmptyAttr(a) == a = EmptyAttr

RECURSIVE Join(_)
\* the tokens of a string as one string
Join(toks) == IF toks = <<>> THEN "" ELSE Head(toks) \o Join(Tail(toks))

(* ---------------------------- rewrite hooks ---------------------------- *)
\* The caller-supplied opts.ReplaceAttr functions the model draws from;
\* "nil" is no hook at all (h.r == nil).
Hooks == {"nil", "id", "dropLevel", "dropTime", "dropMsg", "relabel", "rename", "dropK"}

Hook(kind, groups, a) ==
    CASE kind = "dropLevel" -> (IF a.key = LevelKey THEN EmptyAttr ELSE a)
      [] kind = "dropTime" -> (IF a.key = TimeKey THEN EmptyAttr ELSE a)
      [] kind = "dropMsg" -> (IF a.key = MessageKey THEN EmptyAttr ELSE a)
      [] kind = "relabel" -> (IF a.key = LevelKey THEN Attr("severity", StringValue("LVL")) ELSE a)
      [] kind = "rename" -> (IF a.key = "k" THEN Attr(MessageKey, a.val) ELSE a)
      [] kind = "dropK" -> (IF a.key = "k" THEN EmptyAttr ELSE a)
      [] OTHER -> a

\* the hook as Handle applies it: if h.r != nil { a = h.r([]string{}, a) }
ApplyHook(r, a) == IF r = "nil" THEN a ELSE Hook(r, <<>>, a)

suppressDefaults(next, groups, a) ==
    IF a.key = TimeKey \/ a.key = LevelKey \/ a.key = MessageKey THEN EmptyAttr
    ELSE IF next = "nil" THEN a
    ELSE Hook(next, groups, a)

\* a wrapped hook that calls next before it looks at the key
NextCallsKeyUnseen(next, groups, a) ==
    IF next = "nil" THEN <<>> ELSE <<[groups |-> groups, key |-> a.key]>>

\* the calls of next that suppressDefaults makes for one attribute
NextCalls(next, groups, a) ==
    IF a.key = TimeKey \/ a.key = LevelKey \/ a.key = MessageKey THEN <<>>
    ELSE IF next = "nil" THEN <<>>
    ELSE <<[groups |-> groups, key |-> a.key]>>

(* ------------------- the delegate: slog.JSONHandler -------------------- *)
\* JSON text is a sequence of tokens [t, s]: punctuation, strings, numbers,
\* null and white space.
Punct(c) == [t |-> "punct", s |-> c]
Str(s) == [t |-> "str", s |-> s]
Num(s) == [t |-> "num", s |-> s]
Ws(s) == [t |-> "ws", s |-> s]
LBrace == Punct("{")
RBrace == Punct("}")
Comma == Punct(",")
Colon == Punct(":")
Newline == Ws("\n")

\* the JSON encoding of an attribute's value
JSONValue(v) ==
    CASE v.kind = "String" -> Str(v.s)
      [] v.kind = "Int" -> Num(Join(Itoa(v.n)))
      [] v.kind = "Number" -> Num(v.s)
      [] v.kind = "Level" -> Str(Join(LevelString(v.n)))
      [] OTHER -> [t |-> "null", s |-> "null"]

\* One attribute through the delegate's ReplaceAttr (suppressDefaults of the
\* caller's hook) under the open groups: nothing if it comes back empty,
\* else the member it adds to the object at that group path.
AppendAttr(rep, path, a) ==
    LET b == suppressDefaults(rep, path, a)
    IN  IF IsEmptyAttr(b) THEN <<>> ELSE <<[path |-> path, key |-> b.key, val |-> JSONValue(b.val)]>>

RECURSIVE AppendAttrs(_, _, _)
AppendAttrs(rep, path, as) ==
    IF as = <<>> THEN <<>>
    ELSE AppendAttr(rep, path, Head(as)) \o AppendAttrs(rep, path, Tail(as))

\* The delegate built by NewHandler: no group open, nothing pre-bound,
\* ReplaceAttr = suppressDefaults(opts.ReplaceAttr) and Level = opts.Level.
\* bound is what WithAttrs has been given, as it was given.
NewJSONHandler(opts) ==
    [groups |-> <<>>, pre |-> <<>>, rep |-> opts.ReplaceAttr, level |-> opts.Level, bound |-> <<>>]

\* the delegate's minimum level: LevelInfo when opts.Level is nil
MinLevel(d) == IF d.level = {} THEN LevelInfo ELSE CHOOSE l \in d.level : TRUE

\* an Enabled that compares with the default minimum level
JSONEnabledDefault(d, level) == level >= LevelInfo

\* JSONHandler.Enabled
JSONEnabled(d, level) == level >= MinLevel(d)

\* JSONHandler.WithAttrs: the attributes are encoded when they are bound
JSONWithAttrs(d, as) ==
    [d EXCEPT !.pre = @ \o AppendAttrs(d.rep, d.groups, as),
              !.bound = @ \o [j \in 1 .. Len(as) |-> [groups |-> d.groups, a |-> as[j]]]]

\* JSONHandler.WithGroup
JSONWithGroup(d, name) == [d EXCEPT !.groups = Append(@, name)]

\* the fields the delegate makes of a record itself
BuiltIns(rec) ==
    << Attr(TimeKey, StringValue(Join(FormatTime(rec.time)))),
       Attr(LevelKey, LevelValue(rec.level)),
       Attr(MessageKey, StringValue(rec.msg)) >>

RECURSIVE NextCallsAll(_, _, _)
NextCallsAll(rep, path, as) ==
    IF as = <<>> THEN <<>>
    ELSE NextCalls(rep, path, Head(as)) \o NextCallsAll(rep, path, Tail(as))

\* the calls of the caller's hook while the delegate handles a record: one
\* ReplaceAttr call for each built-in field and each attribute of the record
DelegateHookCalls(d, rec) ==
    NextCallsAll(d.rep, <<>>, BuiltIns(rec)) \o NextCallsAll(d.rep, d.groups, rec.attrs)

\* The members the delegate writes for a record: the built-in fields
\* (outside every group), the pre-bound attributes, the record's attributes.
DelegateMembers(d, rec) ==
    AppendAttrs(d.rep, <<>>, BuiltIns(rec))
        \o d.pre
        \o AppendAttrs(d.rep, d.groups, rec.attrs)

RECURSIVE EmitMembers(_)
EmitMembers(ms) ==
    IF ms = <<>> THEN <<>>
    ELSE <<Str(Head(ms).key), Colon, Head(ms).val>>
            \o (IF Len(ms) > 1 THEN <<Comma>> ELSE <<>>) \o EmitMembers(Tail(ms))

RECURSIVE EmitObject(_, _, _)
\* The object at depth d of the group chain: its own members and then the
\* next group, which is left out when nothing is inside it.
EmitObject(ms, groups, d) ==
    LET here == SelectSeq(ms, LAMBDA m : Len(m.path) = d)
        deeper == SelectSeq(ms, LAMBDA m : Len(m.path) > d)
    IN  <<LBrace>> \o EmitMembers(here)
            \o (IF deeper = <<>> THEN <<>>
                ELSE (IF here = <<>> THEN <<>> ELSE <<Comma>>)
                        \o <<Str(groups[d + 1]), Colon>> \o EmitObject(deeper, groups, d + 1))
            \o <<RBrace>>

\* what h.h.Handle(ctx, r) writes to the buffer: one object and a newline
\* (the members are computed once, then emitted)
DelegateOutput(d, rec) ==
    CHOOSE out \in { EmitObject(ms, d.groups, 0) \o <<Newline>> : ms \in {DelegateMembers(d, rec)} } :
        TRUE

(* ----------------------------- json.Unmarshal -------------------------- *)
\* A decoded map[string]any is a set of entries [path, val]: the keys from
\* the top down to a value that is not a map (an empty map is the value
\* EmptyMap).
EmptyMap == [t |-> "obj", s |-> "{}"]

IsPrefix(p, q) == Len(p) <= Len(q) /\ SubSeq(q, 1, Len(p)) = p

\* m[key] = value: a later member replaces an earlier one of the same key
Put(ents, p, new) == {e \in ents : ~IsPrefix(p, e.path)} \cup new

\* strconv.ParseFloat fails (value out of range) on these numbers
Overflows(s) == s \in {"1e999"}

ParseFail == [ok |-> FALSE, ents |-> {}, next |-> 0]

RECURSIVE ParseMembers(_, _, _, _)
RECURSIVE ParseObject(_, _, _)
ParseObject(toks, i, prefix) ==
    IF i + 1 > Len(toks) \/ toks[i] # LBrace THEN ParseFail
    ELSE IF toks[i + 1] = RBrace THEN [ok |-> TRUE, ents |-> {}, next |-> i + 2]
    ELSE ParseMembers(toks, i + 1, prefix, {})

ParseMembers(toks, i, prefix, acc) ==
    IF i + 2 > Len(toks) \/ toks[i].t # "str" \/ toks[i + 1] # Colon THEN ParseFail
    ELSE
        LET p == Append(prefix, toks[i].s)
            v == toks[i + 2]
            sub == IF v = LBrace THEN ParseObject(toks, i + 2, p)
                   ELSE IF v.t \in {"str", "num", "null"} /\ ~(v.t = "num" /\ Overflows(v.s))
                        THEN [ok |-> TRUE, ents |-> {[path |-> p, val |-> v]}, next |-> i + 3]
                   ELSE ParseFail
            new == IF sub.ents = {} THEN {[path |-> p, val |-> EmptyMap]} ELSE sub.ents
            j == sub.next
        IN  IF ~sub.ok \/ j > Len(toks) THEN ParseFail
            ELSE IF toks[j] = Comma THEN ParseMembers(toks, j + 1, prefix, Put(acc, p, new))
            ELSE IF toks[j] = RBrace THEN [ok |-> TRUE, ents |-> Put(acc, p, new), next |-> j + 1]
            ELSE ParseFail

\* json.Unmarshal(h.b.Bytes(), &attrs): the bytes must be one JSON value
\* with nothing but white space after it
Unmarshal(bytes) ==
    LET r == ParseObject(bytes, 1, <<>>)
    IN  IF r.ok /\ \A j \in r.next .. Len(bytes) : bytes[j].t = "ws"
        THEN [err |-> FALSE, attrs |-> r.ents]
        ELSE [err |-> TRUE, attrs |-> {}]

(* --------------------------- json.MarshalIndent ------------------------ *)
\* encoding/json writes a map's keys in sorted order: the byte order of
\* the keys the model uses
KeyOrder == <<"", "code", "g", "k", "level", "msg", "n", "severity", "time">>

RECURSIVE Indent(_)
Indent(d) == IF d = 0 THEN <<>> ELSE <<Ws("  ")>> \o Indent(d - 1)

RECURSIVE PrettyObject(_, _, _)
RECURSIVE PrettyMembers(_, _, _, _)
PrettyMembers(ents, prefix, d, keys) ==
    IF keys = <<>> THEN <<>>
    ELSE
        LET p == Append(prefix, Head(keys))
            own == {e \in ents : e.path = p}
            val == IF own # {} THEN (LET e == CHOOSE e \in own : TRUE
                                     IN  IF e.val = EmptyMap THEN <<LBrace, RBrace>> ELSE <<e.val>>)
                   ELSE PrettyObject(ents, p, d)
        IN  <<Newline>> \o Indent(d) \o <<Str(Head(keys)), Colon, Ws(" ")>> \o val
                \o (IF Len(keys) > 1 THEN <<Comma>> ELSE <<>>)
                \o PrettyMembers(ents, prefix, d, Tail(keys))

PrettyObject(ents, prefix, d) ==
    LET under == {e \in ents : IsPrefix(prefix, e.path) /\ Len(e.path) > Len(prefix)}
        keys == SelectSeq(KeyOrder, LAMBDA k : \E e \in under : e.path[Len(prefix) + 1] = k)
    IN  IF keys = <<>> THEN <<LBrace, RBrace>>
        ELSE <<LBrace>> \o PrettyMembers(ents, prefix, d + 1, keys)
                \o <<Newline>> \o Indent(d) \o <<RBrace>>

\* json.MarshalIndent(attrs, "", "  ")
MarshalIndent(attrs) == PrettyObject(attrs, <<>>, 0)

RECURSIVE BytesToString(_)
\* string(bytes): a JSON string is its text between quotes
BytesToString(bytes) ==
    IF bytes = <<>> THEN <<>>
    ELSE (IF Head(bytes).t = "str" THEN <<"\"", Head(bytes).s, "\"">> ELSE <<Head(bytes).s>>)
            \o BytesToString(Tail(bytes))

(* ------------------------------- inputs -------------------------------- *)
Callers == 1 .. NumCallers

Rec(l, t, m, as) == [level |-> l, time |-> t, msg |-> m, attrs |-> as]

\* 01:02:03.004
T0 == 3600000 + 2 * 60000 + 3 * 1000 + 4

\* attribute lists of records and of WithAttrs
AttrLists == { <<>>, <<Attr("k", IntValue(1))>>, <<Attr("code", IntValue(500))>>,
               <<Attr("n", NumberValue("1e999"))>>, <<Attr(TimeKey, IntValue(1))>> }

\* slog.HandlerOptions: Level is empty for a nil Leveler, else the one level
Options(level, r) == [Level |-> level, ReplaceAttr |-> r]

\* the options of the test program: Level: slog.LevelDebug
TestOptions == Options({LevelDebug}, "nil")

\* group names of WithGroup
GroupNames == {"g", MessageKey, ""}

\* one level or more in every band of Handle's colour table
Levels == {-5, -4, -3, 0, 1, 3, 4, 7, 8, 9, 10}

\* the records of the concurrent specification
Records == { Rec(LevelInfo, T0, "m", <<Attr("k", IntValue(1))>>),
             Rec(LevelError, T0, "e", <<Attr("code", IntValue(500))>>),
             Rec(LevelWarn, T0, "w", <<Attr("n", NumberValue("1e999"))>>) }

\* the records of the rendering specification
RenderRecords == { Rec(l, T0, "m", <<>>) : l \in Levels }
                    \cup { Rec(LevelInfo, T0, m, as) : m \in {"", "m"}, as \in AttrLists }

(* -------------------------------- state -------------------------------- *)
VARIABLES
    handlers,   \* the Handler values made so far: [h, r, b, m]
    buf,        \* the bytes.Buffer behind each buffer pointer
    mutex,      \* the sync.Mutex behind each mutex pointer: its holder, or 0
    pc,         \* where each caller is in Handle
    call,       \* each caller's Handle call: its arguments, locals and result
    console,    \* what has been written to standard output
    file,       \* what has been written to ./logs.log
    opened,     \* the descriptors openLogFile has returned: the call each was opened for
    logOutput,  \* the log package's output: 0 is stderr, else a descriptor
    halted,     \* log.Fatal has ended the process
    returned,   \* what the Handle calls that have returned gave their callers
    enabledResult, \* the last call of Enabled: handler, level and answer
    ncalls      \* Handle calls started

vars == <<handlers, buf, mutex, pc, call, console, file, opened, logOutput, halted, returned,
          enabledResult, enabledResult, ncalls>>

NoCall == [id |-> 0, h |-> 0, rec |-> Rec(0, 0, "", <<>>), level |-> <<>>, timestamp |-> <<>>,
           msg |-> <<>>, outForLog |-> <<>>, wrote |-> <<>>, attrs |-> {}, bytes |-> <<>>,
           styledOut |-> <<>>, file |-> 0, err |-> "none", hooked |-> <<>>]

NoResult == [h |-> 0, level |-> 0, ok |-> FALSE]

\* NewHandler(opts): the delegate, the caller's hook, a fresh buffer and mutex
NewHandler(opts) == [h |-> NewJSONHandler(opts), r |-> opts.ReplaceAttr, b |-> 1, m |-> 1]

InitWith(options) ==
    /\ \E opts \in options : handlers = <<NewHandler(opts)>>
    /\ enabledResult = NoResult
    /\ buf = [i \in 1 .. MaxHandlers |-> <<>>]
    /\ mutex = [i \in 1 .. MaxHandlers |-> 0]
    /\ pc = [p \in Callers |-> "idle"]
    /\ call = [p \in Callers |-> NoCall]
    /\ console = <<>>
    /\ file = <<>>
    /\ opened = <<>>
    /\ logOutput = 0
    /\ halted = FALSE
    /\ returned = <<>>
    /\ ncalls = 0

Init == InitWith({TestOptions})

(* ------------------------ WithAttrs and WithGroup ---------------------- *)
WithAttrsHandler(h, attrs) == [h |-> JSONWithAttrs(h.h, attrs), b |-> h.b, r |-> h.r, m |-> h.m]

\* a derived handler with a mutex of its own
WithGroupHandlerOwnMutex(h, name) ==
    [h |-> JSONWithGroup(h.h, name), b |-> h.b, r |-> h.r, m |-> h.m + 1]

WithGroupHandler(h, name) == [h |-> JSONWithGroup(h.h, name), b |-> h.b, r |-> h.r, m |-> h.m]

\* a WithAttrs that binds the attributes in the receiver and returns it
WithAttrsInPlace(i, attrs) ==
    /\ ~halted
    /\ Len(handlers) < MaxHandlers
    /\ handlers' = Append([handlers EXCEPT ![i] = WithAttrsHandler(handlers[i], attrs)],
                          WithAttrsHandler(handlers[i], attrs))
    /\ UNCHANGED <<buf, mutex, pc, call, console, file, opened, logOutput, halted, returned, enabledResult, ncalls>>

WithAttrs(i, attrs) ==
    /\ ~halted
    /\ Len(handlers) < MaxHandlers
    /\ handlers' = Append(handlers, WithAttrsHandler(handlers[i], attrs))
    /\ UNCHANGED <<buf, mutex, pc, call, console, file, opened, logOutput, halted, returned, enabledResult, ncalls>>

WithGroup(i, name) ==
    /\ ~halted
    /\ Len(handlers) < MaxHandlers
    /\ handlers' = Append(handlers, WithGroupHandler(handlers[i], name))
    /\ UNCHANGED <<buf, mutex, pc, call, console, file, opened, logOutput, halted, returned, enabledResult, ncalls>>

(* -------------------------------- Enabled ------------------------------ *)
\* Handler.Enabled: return h.h.Enabled(ctx, level)
Enabled(i, level) ==
    /\ ~halted
    /\ enabledResult' = [h |-> i, level |-> level, ok |-> JSONEnabled(handlers[i].h, level)]
    /\ UNCHANGED <<handlers, buf, mutex, pc, call, console, file, opened, logOutput, halted,
                   returned, ncalls>>

(* -------------------------------- Handle ------------------------------- *)
\* a colour chain whose first comparison is strict
LevelStyleStrict(l, level) ==
    IF l < LevelDebug THEN colorize(lightGray, level)
    ELSE IF l <= LevelInfo THEN colorize(cyan, level)
    ELSE IF l < LevelWarn THEN colorize(lightBlue, level)
    ELSE IF l < LevelError THEN colorize(yellow, level)
    ELSE IF l <= LevelError + 1 THEN colorize(lightRed, level)
    ELSE colorize(lightMagenta, level)

\* the colour of the level text: Handle's chain of comparisons
LevelStyle(l, level) ==
    IF l <= LevelDebug THEN colorize(lightGray, level)
    ELSE IF l <= LevelInfo THEN colorize(cyan, level)
    ELSE IF l < LevelWarn THEN colorize(lightBlue, level)
    ELSE IF l < LevelError THEN colorize(yellow, level)
    ELSE IF l <= LevelError + 1 THEN colorize(lightRed, level)
    ELSE IF l > LevelError + 1 THEN colorize(lightMagenta, level)
    ELSE level

\* Handle up to the call of computeAttrs: the three well-known fields
\* through the hook, the coloured fields and the start of the plain line.
RenderFields(r, rec) ==
    LET levelAttr == ApplyHook(r, Attr(LevelKey, LevelValue(rec.level)))
        levelText == ValueString(levelAttr.val) \o <<":">>
        timeAttr == ApplyHook(r, Attr(TimeKey, StringValue(Join(FormatTime(rec.time)))))
        msgAttr == ApplyHook(r, Attr(MessageKey, StringValue(rec.msg)))
        timestamp0 == <<>>
    IN  [ hooked |-> IF r = "nil" THEN <<>>
                     ELSE <<[groups |-> <<>>, key |-> LevelKey], [groups |-> <<>>, key |-> TimeKey],
                            [groups |-> <<>>, key |-> MessageKey]>>,
          level |-> IF ~IsEmptyAttr(levelAttr) THEN LevelStyle(rec.level, levelText) ELSE <<>>,
          timestamp |-> IF ~IsEmptyAttr(timeAttr)
                        THEN colorize(lightGray, ValueString(timeAttr.val)) ELSE <<>>,
          msg |-> IF ~IsEmptyAttr(msgAttr) THEN colorize(white, ValueString(msgAttr.val)) ELSE <<>>,
          outForLog |-> (IF ~IsEmptyAttr(levelAttr) THEN levelText \o <<" ">> ELSE <<>>)
                            \o timestamp0 \o <<" ">>
                            \o ValueString(msgAttr.val) \o <<" ">> ]

HandleBegin(p, i, rec) ==
    /\ ~halted
    /\ pc[p] \in {"idle", "done"}
    /\ ncalls < MaxCalls
    /\ LET f == RenderFields(handlers[i].r, rec)
       IN  call' = [call EXCEPT ![p] =
                [NoCall EXCEPT !.id = ncalls + 1, !.h = i, !.rec = rec, !.level = f.level,
                               !.timestamp = f.timestamp, !.msg = f.msg,
                               !.outForLog = f.outForLog, !.hooked = f.hooked]]
    /\ ncalls' = ncalls + 1
    /\ pc' = [pc EXCEPT ![p] = "lock"]
    /\ UNCHANGED <<handlers, buf, mutex, console, file, opened, logOutput, halted, returned, enabledResult>>

\* a Lock that does not wait
MutexFreeNoWait(m) == TRUE

\* h.m.Lock() returns once the mutex is free
MutexFree(m) == mutex[m] = 0

Lock(p) ==
    /\ ~halted
    /\ pc[p] = "lock"
    /\ MutexFree(handlers[call[p].h].m)
    /\ mutex' = [mutex EXCEPT ![handlers[call[p].h].m] = p]
    /\ pc' = [pc EXCEPT ![p] = "encode"]
    /\ UNCHANGED <<handlers, buf, call, console, file, opened, logOutput, halted, returned, enabledResult, ncalls>>

\* h.h.Handle(ctx, r) returns nil: the delegate has appended its output
Encode(p) ==
    /\ ~halted
    /\ pc[p] = "encode"
    /\ LET h == handlers[call[p].h]
           out == DelegateOutput(h.h, call[p].rec)
       IN  /\ buf' = [buf EXCEPT ![h.b] = @ \o out]
           /\ call' = [call EXCEPT ![p].wrote = out,
                                    ![p].hooked = @ \o DelegateHookCalls(h.h, call[p].rec)]
    /\ pc' = [pc EXCEPT ![p] = "unmarshal"]
    /\ UNCHANGED <<handlers, mutex, console, file, opened, logOutput, halted, returned, enabledResult, ncalls>>

\* h.h.Handle(ctx, r) returns an error, after writing n tokens of its
\* output (slog.Handler lets Handle fail)
EncodeFail(p, n) ==
    /\ ~halted
    /\ pc[p] = "encode"
    /\ LET h == handlers[call[p].h]
           out == SubSeq(DelegateOutput(h.h, call[p].rec), 1, n)
       IN  /\ buf' = [buf EXCEPT ![h.b] = @ \o out]
           /\ call' = [call EXCEPT ![p].wrote = out, ![p].err = "inner handler",
                                    ![p].hooked = @ \o DelegateHookCalls(h.h, call[p].rec)]
    /\ pc' = [pc EXCEPT ![p] = "reset"]
    /\ UNCHANGED <<handlers, mutex, console, file, opened, logOutput, halted, returned, enabledResult, ncalls>>

\* json.Unmarshal(h.b.Bytes(), &attrs) and the two returns after it
UnmarshalBuffer(p) ==
    /\ ~halted
    /\ pc[p] = "unmarshal"
    /\ LET u == Unmarshal(buf[handlers[call[p].h].b])
       IN  call' = [call EXCEPT ![p].attrs = u.attrs,
                                ![p].err = IF u.err THEN "unmarshal" ELSE "none"]
    /\ pc' = [pc EXCEPT ![p] = "reset"]
    /\ UNCHANGED <<handlers, buf, mutex, console, file, opened, logOutput, halted, returned, enabledResult, ncalls>>

\* a deferred function without h.b.Reset()
ResetMissing(p) ==
    /\ ~halted
    /\ pc[p] = "reset"
    /\ pc' = [pc EXCEPT ![p] = "unlock"]
    /\ UNCHANGED <<handlers, buf, mutex, call, console, file, opened, logOutput, halted, returned, enabledResult, ncalls>>

\* a Reset that is skipped when computeAttrs returns an error
ResetOnSuccessOnly(p) ==
    /\ ~halted
    /\ pc[p] = "reset"
    /\ buf' = [buf EXCEPT ![handlers[call[p].h].b] = IF call[p].err = "none" THEN <<>> ELSE @]
    /\ pc' = [pc EXCEPT ![p] = "unlock"]
    /\ UNCHANGED <<handlers, mutex, call, console, file, opened, logOutput, halted, returned, enabledResult, ncalls>>

\* the deferred function: h.b.Reset()
Reset(p) ==
    /\ ~halted
    /\ pc[p] = "reset"
    /\ buf' = [buf EXCEPT ![handlers[call[p].h].b] = <<>>]
    /\ pc' = [pc EXCEPT ![p] = "unlock"]
    /\ UNCHANGED <<handlers, mutex, call, console, file, opened, logOutput, halted, returned, enabledResult, ncalls>>

\* a Handle that goes on after computeAttrs returned an error
UnlockIgnoresError(p) ==
    /\ ~halted
    /\ pc[p] = "unlock"
    /\ mutex' = [mutex EXCEPT ![handlers[call[p].h].m] = 0]
    /\ pc' = [pc EXCEPT ![p] = "marshal"]
    /\ UNCHANGED <<handlers, buf, call, console, file, opened, logOutput, halted, returned, enabledResult, ncalls>>

\* an Unlock that is not deferred: a return with an error leaves the mutex held
UnlockOnSuccessOnly(p) ==
    /\ ~halted
    /\ pc[p] = "unlock"
    /\ mutex' = [mutex EXCEPT ![handlers[call[p].h].m] = IF call[p].err # "none" THEN @ ELSE 0]
    /\ pc' = [pc EXCEPT ![p] = IF call[p].err # "none" THEN "done" ELSE "marshal"]
    /\ returned' = IF call[p].err # "none"
                   THEN Append(returned, [id |-> call[p].id, err |-> call[p].err]) ELSE returned
    /\ UNCHANGED <<handlers, buf, call, console, file, opened, logOutput, halted, enabledResult, ncalls>>

\* the deferred function: h.m.Unlock(); then Handle's "if err != nil { return err }"
Unlock(p) ==
    /\ ~halted
    /\ pc[p] = "unlock"
    /\ mutex' = [mutex EXCEPT ![handlers[call[p].h].m] = 0]
    /\ pc' = [pc EXCEPT ![p] = IF call[p].err # "none" THEN "done" ELSE "marshal"]
    /\ returned' = IF call[p].err # "none"
                   THEN Append(returned, [id |-> call[p].id, err |-> call[p].err]) ELSE returned
    /\ UNCHANGED <<handlers, buf, call, console, file, opened, logOutput, halted, enabledResult, ncalls>>

\* a styled line with the level before the timestamp
StyledLineLevelFirst(c, bytes) ==
    (IF Len(c.level) > 0 THEN c.level \o <<" ">> ELSE <<>>)
        \o (IF Len(c.timestamp) > 0 THEN c.timestamp \o <<" ">> ELSE <<>>)
        \o (IF Len(c.msg) > 0 THEN c.msg \o <<" ">> ELSE <<>>)
        \o (IF Len(bytes) > 0 THEN colorize(darkGray, BytesToString(bytes)) ELSE <<>>)

\* the styled line: timestamp, level, msg, each with a space if not empty,
\* and the blob in dark gray
StyledLine(c, bytes) ==
    (IF Len(c.timestamp) > 0 THEN c.timestamp \o <<" ">> ELSE <<>>)
        \o (IF Len(c.level) > 0 THEN c.level \o <<" ">> ELSE <<>>)
        \o (IF Len(c.msg) > 0 THEN c.msg \o <<" ">> ELSE <<>>)
        \o (IF Len(bytes) > 0 THEN colorize(darkGray, BytesToString(bytes)) ELSE <<>>)

\* the plain line: what was gathered before computeAttrs, and the blob
PlainLine(c, bytes) ==
    c.outForLog \o (IF Len(bytes) > 0 THEN BytesToString(bytes) ELSE <<>>)

\* json.MarshalIndent(attrs, "", "  ") and the composition of both lines
Compose(p) ==
    /\ ~halted
    /\ pc[p] = "marshal"
    /\ LET bytes == MarshalIndent(call[p].attrs)
       IN  call' = [call EXCEPT ![p].bytes = bytes,
                                ![p].styledOut = StyledLine(call[p], bytes),
                                ![p].outForLog = PlainLine(call[p], bytes)]
    /\ pc' = [pc EXCEPT ![p] = "console"]
    /\ UNCHANGED <<handlers, buf, mutex, console, file, opened, logOutput, halted, returned, enabledResult, ncalls>>

\* fmt.Println(styledOut.String())
ConsoleWrite(p) ==
    /\ ~halted
    /\ pc[p] = "console"
    /\ console' = Append(console, [id |-> call[p].id, line |-> call[p].styledOut \o <<"\n">>,
                                    nret |-> Len(returned)])
    /\ pc' = [pc EXCEPT ![p] = "open"]
    /\ UNCHANGED <<handlers, buf, mutex, call, file, opened, logOutput, halted, returned, enabledResult, ncalls>>

\* a Handle that opens the file only if no call has opened it before
OpenLogFileOnce(p) ==
    /\ ~halted
    /\ pc[p] = "open"
    /\ opened' = IF opened = <<>> THEN <<call[p].id>> ELSE opened
    /\ call' = [call EXCEPT ![p].file = 1]
    /\ pc' = [pc EXCEPT ![p] = "setoutput"]
    /\ UNCHANGED <<handlers, buf, mutex, console, file, logOutput, halted, returned, enabledResult, ncalls>>

\* openLogFile("./logs.log") returns a descriptor
OpenLogFile(p) ==
    /\ ~halted
    /\ pc[p] = "open"
    /\ opened' = Append(opened, call[p].id)
    /\ call' = [call EXCEPT ![p].file = Len(opened) + 1]
    /\ pc' = [pc EXCEPT ![p] = "setoutput"]
    /\ UNCHANGED <<handlers, buf, mutex, console, file, logOutput, halted, returned, enabledResult, ncalls>>

\* a Handle that returns the error of openLogFile to its caller
OpenLogFileFailReturns(p) ==
    /\ ~halted
    /\ pc[p] = "open"
    /\ returned' = Append(returned, [id |-> call[p].id, err |-> "open"])
    /\ pc' = [pc EXCEPT ![p] = "done"]
    /\ UNCHANGED <<handlers, buf, mutex, call, console, file, opened, logOutput, halted, enabledResult, ncalls>>

\* what log.Fatal(err) prints: the log package's prefix and the error
FatalLine == <<"<date time.micros>", " ", "main.go:176:", " ", "<open ./logs.log: error>", "\n">>

\* openLogFile fails: log.Fatal(err) prints the error to the log package's
\* output (standard error, or the descriptor an earlier call has set, which
\* nothing has closed) and ends the process
OpenLogFileFail(p) ==
    /\ ~halted
    /\ pc[p] = "open"
    /\ file' = IF logOutput # 0
               THEN Append(file, [id |-> call[p].id, kind |-> "fatal", line |-> FatalLine])
               ELSE file
    /\ halted' = TRUE
    /\ UNCHANGED <<handlers, buf, mutex, pc, call, console, opened, logOutput, returned, enabledResult, ncalls>>

\* log.SetOutput(file); log.SetFlags(...)
SetOutput(p) ==
    /\ ~halted
    /\ pc[p] = "setoutput"
    /\ logOutput' = call[p].file
    /\ pc' = [pc EXCEPT ![p] = "println"]
    /\ UNCHANGED <<handlers, buf, mutex, call, console, file, opened, halted, returned, enabledResult, ncalls>>

\* what the log package puts before the line: date, time with
\* microseconds, file:line
LogPrefix == <<"<date time.micros>", " ", "main.go:182:", " ">>

\* a Handle that writes the plain line twice
LogPrintlnTwice(p) ==
    /\ ~halted
    /\ pc[p] = "println"
    /\ file' = file \o [j \in 1 .. 2 |-> [id |-> call[p].id, kind |-> "record",
                                          line |-> LogPrefix \o call[p].outForLog \o <<"\n">>]]
    /\ returned' = Append(returned, [id |-> call[p].id, err |-> "none"])
    /\ pc' = [pc EXCEPT ![p] = "done"]
    /\ UNCHANGED <<handlers, buf, mutex, call, console, opened, logOutput, halted, enabledResult, ncalls>>

\* log.Println(outForLog.String()), which writes to the log package's
\* output (every descriptor is ./logs.log, opened for append); return nil
LogPrintln(p) ==
    /\ ~halted
    /\ pc[p] = "println"
    /\ file' = Append(file, [id |-> call[p].id, kind |-> "record",
                              line |-> LogPrefix \o call[p].outForLog \o <<"\n">>])
    /\ returned' = Append(returned, [id |-> call[p].id, err |-> "none"])
    /\ pc' = [pc EXCEPT ![p] = "done"]
    /\ UNCHANGED <<handlers, buf, mutex, call, console, opened, logOutput, halted, enabledResult, ncalls>>

Step(p) ==
    \/ Lock(p)
    \/ Encode(p)
    \/ \E n \in 0 .. 1 : EncodeFail(p, n)
    \/ UnmarshalBuffer(p)
    \/ Reset(p)
    \/ Unlock(p)
    \/ Compose(p)
    \/ ConsoleWrite(p)
    \/ OpenLogFile(p)
    \/ OpenLogFileFail(p)
    \/ SetOutput(p)
    \/ LogPrintln(p)

Derive ==
    \E i \in 1 .. Len(handlers) :
        \/ WithAttrs(i, <<Attr("code", IntValue(500))>>)
        \/ WithGroup(i, "g")

Next ==
    \/ Derive
    \/ \E p \in Callers, i \in 1 .. Len(handlers), rec \in Records : HandleBegin(p, i, rec)
    \/ \E p \in Callers : Step(p)

Spec == Init /\ [][Next]_vars

(* The rendering specification: one caller, every hook, every level band,  *)
(* every attribute list and group name.                                    *)
InitRender == InitWith({Options({LevelDebug}, r) : r \in Hooks})

DeriveRender ==
    \E i \in 1 .. Len(handlers) :
        \/ \E attrs \in AttrLists : WithAttrs(i, attrs)
        \/ \E name \in GroupNames : WithGroup(i, name)

NextRender ==
    \/ DeriveRender
    \/ \E i \in 1 .. Len(handlers), rec \in RenderRecords :
            ncalls < MaxRenderCalls /\ HandleBegin(1, i, rec)
    \/ Step(1)

SpecRender == InitRender /\ [][NextRender]_vars

(* The fair specification: the callers of the concurrent specification,    *)
(* each step of a started call taken if it stays possible, and the mutex   *)
(* given to a caller that is again and again able to take it (sync.Mutex   *)
(* hands the lock to a waiter that has waited long).                       *)
\* a record that is written and one whose attributes do not decode
LiveRecords == { Rec(LevelInfo, T0, "m", <<Attr("k", IntValue(1))>>),
                 Rec(LevelWarn, T0, "w", <<Attr("n", NumberValue("1e999"))>>) }

NextLive ==
    \/ Derive
    \/ \E p \in Callers, i \in 1 .. Len(handlers), rec \in LiveRecords :
            ncalls < MaxLiveCalls /\ HandleBegin(p, i, rec)
    \/ \E p \in Callers : Step(p)

Fairness == \A p \in Callers : WF_vars(Step(p)) /\ SF_vars(Lock(p))

SpecLive == Init /\ [][NextLive]_vars /\ Fairness

(* The gating specification: every minimum level NewHandler can be given,  *)
(* handlers derived in every way, and Enabled asked of each for each level. *)
MinLevels == {{}, {LevelDebug}, {LevelWarn}, {LevelError + 1}}

InitEnabled == InitWith({Options(level, "nil") : level \in MinLevels})

NextEnabled ==
    \/ DeriveRender
    \/ \E i \in 1 .. Len(handlers), level \in Levels : Enabled(i, level)

SpecEnabled == InitEnabled /\ [][NextEnabled]_vars

(* ======================== properties of the model ====================== *)
\* the handler, mutex and buffer of caller p's call
HandlerOf(p) == handlers[call[p].h]
\* p is between Lock and Unlock
InComputeAttrs(p) == pc[p] \in {"encode", "unmarshal", "reset", "unlock"}
\* computeAttrs has parsed the buffer for p's call
Parsed(p) == pc[p] \in {"reset", "unlock", "marshal", "console", "open", "setoutput", "println", "done"}
                /\ call[p].err # "inner handler"
\* p's call has returned nil
ReturnedNil(p) == pc[p] = "done" /\ call[p].err = "none"
\* the decoding of what the delegate writes for p's own record
OwnDecoding(p) == Unmarshal(DelegateOutput(HandlerOf(p).h, call[p].rec))

\* C1: the mapping computeAttrs returns to a call is the decoding of what
\* the delegate wrote for that call's own record, and it fails to decode
\* only if that output does not decode, whatever other calls of the family
\* are doing.
C1_OwnAttrsOnly ==
    \A p \in Callers :
        Parsed(p) =>
            /\ call[p].attrs = OwnDecoding(p).attrs
            /\ (call[p].err = "unmarshal") = OwnDecoding(p).err

\* C1 witness: a call on a derived handler has decoded its attributes while
\* a call with another record on the root waits for the mutex.
C1_Witness ==
    \E p, q \in Callers :
        /\ pc[p] = "reset" /\ call[p].err = "none" /\ call[p].attrs # {}
        /\ pc[q] = "lock" /\ call[q].rec # call[p].rec
        /\ call[p].h # call[q].h

\* C2: whenever no call holds the family's mutex, the shared buffer is
\* empty; so it is empty when a call has just taken the mutex and when a
\* call has returned and the mutex is free.
C2_BufferEmptyWhenUnlocked ==
    /\ \A i \in 1 .. Len(handlers) :
            mutex[handlers[i].m] = 0 => buf[handlers[i].b] = <<>>
    /\ \A p \in Callers : pc[p] = "encode" => buf[HandlerOf(p).b] = <<>>

\* C2 witness: a call that wrote to the buffer has returned nil, a second
\* call has been started after it, and the mutex is free.
C2_Witness ==
    \E p, q \in Callers :
        /\ ReturnedNil(p) /\ call[p].wrote # <<>>
        /\ pc[q] = "lock" /\ call[q].id > call[p].id
        /\ mutex[HandlerOf(p).m] = 0

\* C3: two calls on handlers that share a buffer are never both between
\* Lock and Unlock.
C3_OneComputeAttrsInFlight ==
    \A p, q \in Callers :
        (p # q /\ InComputeAttrs(p) /\ InComputeAttrs(q)) => HandlerOf(p).b # HandlerOf(q).b

\* C3 witness: a call on a handler derived by WithGroup is inside
\* computeAttrs while a call on another handler of the family waits.
C3_Witness ==
    \E p, q \in Callers :
        /\ pc[p] = "unmarshal" /\ HandlerOf(p).h.groups # <<>>
        /\ pc[q] = "lock" /\ call[q].h # call[p].h
        /\ HandlerOf(q).b = HandlerOf(p).b

\* C4: once a call has left computeAttrs with an error, it no longer holds
\* the mutex, the buffer is empty unless another call has since taken the
\* mutex, and a call that takes the mutex afterwards decodes its own record.
C4_ErrorPathsRelease ==
    \A p \in Callers :
        (pc[p] = "done" /\ call[p].err # "none") =>
            /\ mutex[HandlerOf(p).m] # p
            /\ mutex[HandlerOf(p).m] = 0 => buf[HandlerOf(p).b] = <<>>
            /\ \A q \in Callers :
                    (call[q].id > call[p].id /\ Parsed(q)) =>
                        (call[q].attrs = OwnDecoding(q).attrs
                            /\ (call[q].err = "unmarshal") = OwnDecoding(q).err)

\* C4 witness: one call has returned the delegate's error and another the
\* Unmarshal error, the mutex is free, and a third call, started after
\* both, has taken the mutex and decoded its own attributes.
C4_Witness ==
    \E p \in Callers :
        /\ Len(returned) = 2
        /\ {returned[1].err, returned[2].err} = {"inner handler", "unmarshal"}
        /\ call[p].id = 3 /\ pc[p] = "marshal" /\ call[p].attrs # {}
        /\ mutex[HandlerOf(p).m] = 0

\* the ids of the calls with a line on the console, a line for their
\* record in the file, a descriptor
ConsoleIds == {console[i].id : i \in 1 .. Len(console)}
FileIds == {file[i].id : i \in {j \in 1 .. Len(file) : file[j].kind = "record"}}
OpenedIds == {opened[i] : i \in 1 .. Len(opened)}
\* p's call has composed its two lines
Composed(p) == pc[p] \in {"console", "open", "setoutput", "println", "done"} /\ call[p].err = "none"

\* C5: a call whose attribute computation or pretty-printing failed returns
\* that error, and no console line, no file line and no descriptor is ever
\* made for it.
C5_NoOutputOnError ==
    /\ \A p \in Callers :
            call[p].err # "none" =>
                /\ call[p].id \notin ConsoleIds \cup FileIds \cup OpenedIds
                /\ pc[p] \in {"reset", "unlock", "done"}
                /\ pc[p] = "done" =>
                        \E i \in 1 .. Len(returned) :
                            returned[i] = [id |-> call[p].id, err |-> call[p].err]
    /\ \A i \in 1 .. Len(returned) :
            returned[i].err # "none" => returned[i].id \notin ConsoleIds \cup FileIds \cup OpenedIds

\* C5 witness: one call has returned the delegate's error, one the
\* Unmarshal error, and the only lines written are those of a third call.
C5_Witness ==
    /\ Len(returned) = 3
    /\ {returned[i].err : i \in 1 .. 3} = {"inner handler", "unmarshal", "none"}
    /\ Len(console) = 1 /\ Len(file) = 1 /\ Len(opened) = 1

WellKnownKeys == {TimeKey, LevelKey, MessageKey}

\* the keys in a JSON text: the strings before a colon
KeysOf(bytes) == {bytes[j].s : j \in {k \in 1 .. Len(bytes) - 1 : bytes[k].t = "str" /\ bytes[k + 1] = Colon}}

\* C6 (as claimed): the blob of every written line has no key time, level
\* or msg, for every record, hook and handler.
C6_NoWellKnownKeyInBlob ==
    \A p \in Callers : Composed(p) => KeysOf(call[p].bytes) \cap WellKnownKeys = {}

\* the three well-known fields of p's call as the hook returns them
HookedField(p, key) ==
    ApplyHook(HandlerOf(p).r,
              CASE key = LevelKey -> Attr(LevelKey, LevelValue(call[p].rec.level))
                [] key = TimeKey -> Attr(TimeKey, StringValue(Join(FormatTime(call[p].rec.time))))
                [] OTHER -> Attr(MessageKey, StringValue(call[p].rec.msg)))
Suppressed(p, key) == IsEmptyAttr(HookedField(p, key))

\* the plain line before the blob
PlainFields(p) ==
    SubSeq(call[p].outForLog, 1, Len(call[p].outForLog) - Len(BytesToString(call[p].bytes)))

Count(seq, tok) == Cardinality({j \in 1 .. Len(seq) : seq[j] = tok})

\* C7 (as claimed): a well-known field for which the hook returns the
\* empty attribute adds nothing to either line: the styled field is empty,
\* and the plain line has one separating space for each field that is not
\* suppressed and no text for a suppressed one.
C7_SuppressedFieldAbsent ==
    \A p \in Callers :
        Composed(p) =>
            /\ Suppressed(p, LevelKey) => call[p].level = <<>>
            /\ Suppressed(p, TimeKey) => call[p].timestamp = <<>>
            /\ Suppressed(p, MessageKey) => call[p].msg = <<>>
            /\ Count(PlainFields(p), " ")
                    <= Cardinality({k \in WellKnownKeys : ~Suppressed(p, k)})
            /\ Suppressed(p, MessageKey) => Count(PlainFields(p), "<nil>") = 0

\* the bands of the colour table, each with its colour
Bands(l) ==
    { b \in { [in |-> l <= LevelDebug, colour |-> lightGray],
              [in |-> LevelDebug < l /\ l <= LevelInfo, colour |-> cyan],
              [in |-> LevelInfo < l /\ l < LevelWarn, colour |-> lightBlue],
              [in |-> LevelWarn <= l /\ l < LevelError, colour |-> yellow],
              [in |-> LevelError <= l /\ l <= LevelError + 1, colour |-> lightRed],
              [in |-> l > LevelError + 1, colour |-> lightMagenta] } : b.in }

\* C8: when the level field is not suppressed, the level text on the
\* console is the hook's text and a colon in the colour of the one band
\* the record's level is in, whatever value the hook gave the field.
C8_LevelColourByBand ==
    \A p \in Callers :
        (pc[p] # "idle" /\ ~Suppressed(p, LevelKey)) =>
            /\ Cardinality(Bands(call[p].rec.level)) = 1
            /\ \A b \in Bands(call[p].rec.level) :
                    call[p].level = colorize(b.colour,
                                        ValueString(HookedField(p, LevelKey).val) \o <<":">>)

\* C8 witness: a record of level Error+1 whose level the hook has rewritten
\* is on the console in light red.
C8_Witness ==
    \E p \in Callers :
        /\ pc[p] = "done" /\ call[p].err = "none"
        /\ call[p].rec.level = LevelError + 1
        /\ HandlerOf(p).r = "relabel"
        /\ call[p].level = <<"ESC[", "91", "m", "LVL", ":", "ESC[0m">>
        /\ \E i \in 1 .. Len(console) : console[i].id = call[p].id

\* what colorize wrapped
Uncolour(v) == SubSeq(v, 4, Len(v) - 1)

Contains(hay, needle) ==
    \E i \in 0 .. Len(hay) - Len(needle) : SubSeq(hay, i + 1, i + Len(needle)) = needle

\* C9 (as claimed): every field of the styled line is in the plain line
\* as the same text without colour, and the plain line has no escape.
C9_PlainIsUncolouredStyled ==
    \A p \in Callers :
        Composed(p) =>
            /\ Contains(call[p].outForLog, Uncolour(call[p].level))
            /\ Contains(call[p].outForLog, Uncolour(call[p].timestamp))
            /\ Contains(call[p].outForLog, Uncolour(call[p].msg))
            /\ Contains(call[p].outForLog, BytesToString(call[p].bytes))
            /\ \A j \in 1 .. Len(call[p].outForLog) : ~IsEscape(call[p].outForLog[j])

\* a field of the styled line: its text and one space, or nothing
Field(v) == IF v = <<>> THEN <<>> ELSE v \o <<" ">>

\* C10: the styled line, and the line on the console, is timestamp, level,
\* message, each followed by one space unless it is empty, and then the
\* blob in dark gray if the blob is not empty.
C10_StyledLineOrder ==
    \A p \in Callers :
        Composed(p) =>
            LET blob == BytesToString(call[p].bytes)
                line == Field(call[p].timestamp) \o Field(call[p].level) \o Field(call[p].msg)
                            \o (IF blob # <<>> THEN <<"ESC[", "90", "m">> \o blob \o <<"ESC[0m">>
                                ELSE <<>>)
            IN  /\ call[p].styledOut = line
                /\ \A i \in 1 .. Len(console) :
                        console[i].id = call[p].id => console[i].line = line \o <<"\n">>
                /\ Suppressed(p, TimeKey) <=> call[p].timestamp = <<>>
                /\ Suppressed(p, LevelKey) <=> call[p].level = <<>>
                /\ Suppressed(p, MessageKey) <=> call[p].msg = <<>>

\* C10 witness: a line is on the console whose timestamp the hook
\* suppressed, with a level, a message and a blob with an attribute.
C10_Witness ==
    \E p \in Callers :
        /\ pc[p] = "done" /\ call[p].err = "none"
        /\ call[p].timestamp = <<>> /\ call[p].level # <<>> /\ call[p].msg # <<>>
        /\ call[p].attrs # {}
        /\ \E i \in 1 .. Len(console) : console[i].id = call[p].id

\* C11 (as claimed): when the decoded mapping of a call is empty, the blob
\* is empty and adds nothing to either line: the styled line ends with the
\* message field and the plain line is what Handle gathered before
\* computeAttrs.
C11_EmptyMapEmptyBlob ==
    \A p \in Callers :
        (Composed(p) /\ call[p].attrs = {}) =>
            /\ call[p].bytes = <<>>
            /\ call[p].styledOut
                    = Field(call[p].timestamp) \o Field(call[p].level) \o Field(call[p].msg)
            /\ call[p].outForLog = RenderFields(HandlerOf(p).r, call[p].rec).outForLog

\* what Handle on handler h gives for a record when the delegate and the
\* file do not fail: the error, and the two lines
HandleOutcome(h, rec) ==
    LET u == Unmarshal(DelegateOutput(h.h, rec))
        f == RenderFields(h.r, rec)
        bytes == MarshalIndent(u.attrs)
    IN  IF u.err THEN [err |-> "unmarshal", styled |-> <<>>, plain |-> <<>>]
        ELSE [err |-> "none", styled |-> StyledLine(f, bytes), plain |-> PlainLine(f, bytes)]

\* what p's call has given
OutcomeOf(p) ==
    IF call[p].err = "none"
    THEN [err |-> "none", styled |-> call[p].styledOut, plain |-> call[p].outForLog]
    ELSE [err |-> call[p].err, styled |-> <<>>, plain |-> <<>>]

\* C12 (as claimed): for the handler h of every call, h.WithAttrs([]) and
\* h.WithGroup("") give for the call's record the same styled line, plain
\* line and error as h has given, and Enabled answers the same for every
\* level.
C12_EmptyDerivationEquivalent ==
    \A p \in Callers :
        ((Composed(p) \/ call[p].err = "unmarshal") /\ Parsed(p)) =>
            \A d \in {WithAttrsHandler(HandlerOf(p), <<>>), WithGroupHandler(HandlerOf(p), "")} :
                /\ HandleOutcome(d, call[p].rec) = OutcomeOf(p)
                /\ \A l \in Levels : JSONEnabled(d.h, l) = JSONEnabled(HandlerOf(p).h, l)

\* the same for WithAttrs([]) alone
C12_EmptyAttrsEquivalent ==
    \A p \in Callers :
        ((Composed(p) \/ call[p].err = "unmarshal") /\ Parsed(p)) =>
            HandleOutcome(WithAttrsHandler(HandlerOf(p), <<>>), call[p].rec) = OutcomeOf(p)

\* the handler NewHandler returned: the first of the family
Root == handlers[1]

\* C13: WithAttrs and WithGroup leave every handler there is as it was: the
\* root is still what NewHandler made and a call on it decodes only its own
\* record's attributes at the top level, and every derived handler has the
\* buffer, mutex and hook of the handler it was derived from and that
\* handler's delegate with the attributes bound or the group opened.
C13_DerivationLeavesReceiver ==
    /\ Root = NewHandler(Options(Root.h.level, Root.r))
    /\ \A i \in 2 .. Len(handlers) :
            \E j \in 1 .. i - 1 :
                /\ handlers[i].b = handlers[j].b
                /\ handlers[i].m = handlers[j].m
                /\ handlers[i].r = handlers[j].r
                /\ \/ \E as \in AttrLists : handlers[i].h = JSONWithAttrs(handlers[j].h, as)
                   \/ \E name \in GroupNames : handlers[i].h = JSONWithGroup(handlers[j].h, name)
    /\ \A p \in Callers :
            (Parsed(p) /\ call[p].h = 1) =>
                call[p].attrs
                    = Unmarshal(DelegateOutput(NewJSONHandler(Options(Root.h.level, Root.r)),
                                               call[p].rec)).attrs

\* C13 witness: a call on the handler derived by WithAttrs has written a
\* blob with the bound attribute, and a later call on the root has returned
\* nil with a blob without it.
C13_Witness ==
    \E p, q \in Callers :
        /\ Len(handlers) = 2 /\ handlers[2].h.pre # <<>>
        /\ Composed(q) /\ call[q].h = 2 /\ "code" \in KeysOf(call[q].bytes)
        /\ ReturnedNil(p) /\ call[p].h = 1 /\ call[p].id > call[q].id
        /\ KeysOf(call[p].bytes) = {"k"}

\* C14: the last answer of Enabled, of the root or of a derived handler, is
\* what the delegate's Enabled gives, and it is true exactly when the level
\* is at or above the minimum level NewHandler was given (LevelInfo when it
\* was given none).
C14_EnabledIsDelegates ==
    enabledResult # NoResult =>
        LET h == handlers[enabledResult.h]
            min == IF Root.h.level = {} THEN LevelInfo ELSE CHOOSE l \in Root.h.level : TRUE
        IN  /\ enabledResult.ok = JSONEnabled(h.h, enabledResult.level)
            /\ enabledResult.ok <=> enabledResult.level >= min
            /\ h.h.level = Root.h.level

\* C14 witness: a handler derived from a root with minimum level Warn has
\* answered false for a level just below Warn.
C14_Witness ==
    /\ enabledResult.h = 2
    /\ Root.h.level = {LevelWarn}
    /\ enabledResult.level = 3
    /\ ~enabledResult.ok

\* p's call has been started and has not returned
InHandle(p) == pc[p] \notin {"idle", "done"}

\* C15: every started call returns (nil or an error), or the process ends
\* at log.Fatal. A call that waited for ever for the mutex, or a state with
\* a call under way and no step to take, would be a call that never returns.
C15_EveryCallFinishes ==
    \A p \in Callers : InHandle(p) ~> (pc[p] = "done" \/ halted)

\* C15 witness: a call on a derived handler waits for the mutex that a call
\* on the root holds.
C15_Witness ==
    \E p, q \in Callers :
        /\ pc[p] = "lock" /\ call[p].h = 2
        /\ InComputeAttrs(q) /\ call[q].h = 1
        /\ mutex[HandlerOf(p).m] = q

\* the calls that have returned
ReturnedIds == {returned[i].id : i \in 1 .. Len(returned)}

\* the order of the stages, and the end of the process at a failed open
StagesInOrder ==
    /\ OpenedIds \subseteq ConsoleIds
    /\ FileIds \subseteq OpenedIds
    /\ \A i \in 1 .. Len(returned) : returned[i].err \in {"none", "inner handler", "unmarshal"}
    /\ halted => \E p \in Callers : pc[p] = "open"
    /\ \A p \in Callers :
            pc[p] = "open" => (call[p].id \in ConsoleIds /\ call[p].id \notin ReturnedIds)

\* C16 (as claimed): the console write of a call comes before its open and
\* its file write, and when the open fails the styled line is on the
\* console, nothing is written to the file and the process ends without a
\* return of Handle.
C16_NoFileLineOnOpenFailure ==
    /\ StagesInOrder
    /\ \A p \in Callers :
            pc[p] = "open" => \A i \in 1 .. Len(file) : file[i].id # call[p].id

\* C16 (amended): the same, but at a failed open it is the record's plain
\* line that is not written: the file may get the error message of
\* log.Fatal, when an earlier call has made the file the log package's
\* output.
C16_NoRecordLineOnOpenFailure ==
    /\ StagesInOrder
    /\ \A p \in Callers :
            pc[p] = "open" =>
                \A i \in 1 .. Len(file) :
                    file[i].id = call[p].id =>
                        (halted /\ file[i].kind = "fatal" /\ file[i].line = FatalLine
                            /\ i = Len(file) /\ logOutput # 0)

\* C16 witness: the open of a call has failed after an earlier call wrote
\* its record: the failed call's line is on the console, the file ends
\* with the message of log.Fatal and the process has ended.
C16_Witness ==
    \E p \in Callers :
        /\ halted /\ pc[p] = "open"
        /\ call[p].id \in ConsoleIds
        /\ Len(file) = 2 /\ file[1].kind = "record"
        /\ file[2] = [id |-> call[p].id, kind |-> "fatal", line |-> FatalLine]

\* the calls that have returned nil
ReturnedNilIds == {returned[i].id : i \in {j \in 1 .. Len(returned) : returned[j].err = "none"}}

\* one descriptor for each call that has passed openLogFile, and none twice
OneDescriptorPerCall ==
    /\ \A i, j \in 1 .. Len(opened) : opened[i] = opened[j] => i = j
    /\ OpenedIds = ReturnedNilIds \cup {call[p].id : p \in {q \in Callers : pc[q] \in {"setoutput", "println"}}}
    /\ Len(opened) = Cardinality(ReturnedNilIds)
                        + Cardinality({p \in Callers : pc[p] \in {"setoutput", "println"}})
    /\ \A p \in Callers :
            (pc[p] \in {"setoutput", "println"} \/ ReturnedNil(p)) => opened[call[p].file] = call[p].id

\* C17: every call that has passed openLogFile has opened one descriptor,
\* so after k calls that returned nil (and none under way in the file
\* stage) k descriptors have been opened; and no step closes one: the
\* descriptors opened so far stay, and a step adds at most one.
C17_DescriptorsOnlyGrow ==
    /\ []OneDescriptorPerCall
    /\ [][/\ Len(opened') >= Len(opened)
          /\ SubSeq(opened', 1, Len(opened)) = opened
          /\ Len(opened') <= Len(opened) + 1]_vars

\* C17 witness: three calls have returned nil and three descriptors are
\* open.
C17_Witness ==
    /\ Cardinality(ReturnedNilIds) = 3
    /\ Len(opened) = 3
    /\ \A p \in Callers : pc[p] \in {"idle", "done"}

\* a call of the caller's hook
HookCall(groups, key) == [groups |-> groups, key |-> key]

\* the attributes of the record that do not have a well-known key
OtherAttrs(rec) == SelectSeq(rec.attrs, LAMBDA a : a.key \notin WellKnownKeys)

\* C18: the delegate's wrapped hook gives the empty attribute for the keys
\* time, level and msg and else what the caller's hook gives (the attribute
\* itself when there is no hook); and the calls of the caller's hook in one
\* Handle call are level, time, msg with no group, from Handle, and then,
\* from the delegate, only attributes with other keys.
C18_HookSeesWellKnownOnce ==
    \A p \in Callers :
        pc[p] # "idle" =>
            LET r == HandlerOf(p).r
                d == HandlerOf(p).h
                rec == call[p].rec
                seen == call[p].hooked
            IN  /\ d.rep = r
                /\ \A j \in 1 .. 3 : suppressDefaults(d.rep, <<>>, BuiltIns(rec)[j]) = EmptyAttr
                /\ \A j \in 1 .. Len(rec.attrs) :
                        suppressDefaults(d.rep, d.groups, rec.attrs[j])
                            = IF rec.attrs[j].key \in WellKnownKeys THEN EmptyAttr
                              ELSE IF r = "nil" THEN rec.attrs[j]
                              ELSE Hook(r, d.groups, rec.attrs[j])
                /\ r = "nil" => seen = <<>>
                /\ r # "nil" =>
                        /\ Len(seen) >= 3
                        /\ SubSeq(seen, 1, 3) = <<HookCall(<<>>, LevelKey), HookCall(<<>>, TimeKey),
                                                  HookCall(<<>>, MessageKey)>>
                        /\ \A j \in 4 .. Len(seen) : seen[j].key \notin WellKnownKeys
                        /\ pc[p] \notin {"lock", "encode"} =>
                                SubSeq(seen, 4, Len(seen))
                                    = [j \in 1 .. Len(OtherAttrs(rec)) |->
                                            HookCall(d.groups, OtherAttrs(rec)[j].key)]

\* C18 witness: a call with a hook, on a handler with an open group, has
\* returned nil; its hook saw level, time, msg and then the record's
\* attribute in the group.
C18_Witness ==
    \E p \in Callers :
        /\ ReturnedNil(p) /\ HandlerOf(p).r = "id"
        /\ call[p].hooked = <<HookCall(<<>>, LevelKey), HookCall(<<>>, TimeKey),
                              HookCall(<<>>, MessageKey), HookCall(<<"g">>, "k")>>

\* C18 witness of the other case: a record with an attribute of key time,
\* which the hook never saw.
C18_WitnessUserTime ==
    \E p \in Callers :
        /\ ReturnedNil(p) /\ HandlerOf(p).r = "id"
        /\ call[p].rec.attrs = <<Attr(TimeKey, IntValue(1))>>
        /\ Len(call[p].hooked) = 3

\* what the caller's hook gives for an attribute: the attribute itself when
\* there is no hook
CallerHook(r, groups, a) == IF r = "nil" THEN a ELSE Hook(r, groups, a)

\* the attributes of p's call with their groups: those bound by WithAttrs
\* and those of the record
Carried(p) ==
    HandlerOf(p).h.bound
        \o [j \in 1 .. Len(call[p].rec.attrs) |->
                [groups |-> HandlerOf(p).h.groups, a |-> call[p].rec.attrs[j]]]

ConsoleAt(id) == {i \in 1 .. Len(console) : console[i].id = id}
FileAt(id) == {i \in 1 .. Len(file) : file[i].id = id /\ file[i].kind = "record"}
ConsolePos(id) == CHOOSE i \in ConsoleAt(id) : TRUE
FilePos(id) == CHOOSE i \in FileAt(id) : TRUE

\* every call that returned nil has one line on the console and one in the file
OneLineEach ==
    \A a \in ReturnedNilIds : Cardinality(ConsoleAt(a)) = 1 /\ Cardinality(FileAt(a)) = 1

\* C20 (as claimed): every call that returned nil has one console line and
\* one file line, and any two such calls, concurrent or not, have their
\* lines in the same order on the console and in the file.
C20_SameOrderOnBothSinks ==
    /\ OneLineEach
    /\ \A a, b \in ReturnedNilIds :
            (ConsolePos(a) < ConsolePos(b)) <=> (FilePos(a) < FilePos(b))

\* C20 (amended): every call that returned nil has one console line and one
\* file line, and if a call had returned nil before another wrote its
\* console line, its lines come first on the console and in the file.
C20_SameOrderWhenNotOverlapping ==
    /\ OneLineEach
    /\ \A j \in 1 .. Len(console) :
            \A k \in 1 .. console[j].nret :
                returned[k].err = "none" =>
                    /\ ConsolePos(returned[k].id) < j
                    /\ FileAt(console[j].id) # {} => FilePos(returned[k].id) < FilePos(console[j].id)

\* C20 witness: a call returned nil before a second call wrote its console
\* line, and the second has returned nil too.
C20_Witness ==
    /\ Len(console) >= 2
    /\ console[2].nret >= 1
    /\ returned[1].err = "none"
    /\ console[2].id \in ReturnedNilIds
    /\ FilePos(returned[1].id) < FilePos(console[2].id)

====
